---- MODULE Spec2Model ----
(***************************************************************************)
(* Model of app.py: the /get_playlist_ids service.                         *)
(*                                                                         *)
(*   Spec         one request against the store, every kind of JSON body,  *)
(*                every outcome of the two queries                         *)
(*   SpecPair     two requests handled in overlapping time                 *)
(*   SpecExtract  the identifier extraction of get_playlist_ids, applied   *)
(*                to bounded input strings                                 *)
(*                                                                         *)
(* Python strings are TLA+ strings; Python values whose type the code      *)
(* tests (the JSON body, what a worker returns) carry their type.          *)
(***************************************************************************)
EXTENDS Integers, Sequences, FiniteSets, TLC

VARIABLES
    startup,      \* what happened to the module-level initialisation (lines 22-35)
    client,       \* the module-level store client: "client" or "None"
    body,         \* per request: the value request.get_json() returned
    pc,           \* per request: where its handler thread stands
    playlist_id,  \* per call frame: local playlist_id of get_playlist_ids
    results,      \* per call frame: local results   (table name -> value)
    results2,     \* per call frame: local results2  (table name -> value)
    issued,       \* the queries that reached the store (client.query calls)
    storeOut,     \* per request: what the store answered to its two queries
    response,     \* per request: the HTTP response sent
    overlapped,   \* some request was accepted while another was in progress
    xurl,         \* SpecExtract: the input string
    xid,          \* SpecExtract: the extraction applied to xurl
    xid2,         \* SpecExtract: the extraction applied to xid
    xpc           \* SpecExtract: "input", "once", "twice"

vars == <<startup, client, body, pc, playlist_id, results, results2, issued,
          storeOut, response, overlapped, xurl, xid, xid2, xpc>>

serviceVars == <<startup, client, body, pc, playlist_id, results, results2,
                 issued, storeOut, response, overlapped>>

extractVars == <<xurl, xid, xid2, xpc>>

(***************************************************************************)
(* Bounds.                                                                 *)
(***************************************************************************)
\* SpecExtract: an input string is the concatenation of at most MaxPieces pieces.
MaxPieces == 3

\* Spec: at most MaxAbsent of the selected columns are missing from a metrics row.
MaxAbsent == 1

(***************************************************************************)
(* Python strings.                                                         *)
(***************************************************************************)
Max(a, b) == IF a >= b THEN a ELSE b

\* s[i-1 : i-1+len(t)] == t
OccursAt(s, t, i) ==
    /\ i >= 1
    /\ i + Len(t) - 1 <= Len(s)
    /\ SubSeq(s, i, i + Len(t) - 1) = t

\* str.find(t) from position i, 1-based: the least position at or after i where
\* t occurs, 0 when there is none
Find(s, t, i) ==
    LET hits == { j \in i..(Len(s) - Len(t) + 1) : OccursAt(s, t, j) }
    IN  IF hits = {} THEN 0 ELSE CHOOSE j \in hits : \A k \in hits : j <= k

\* t in s, for two strings
StrContains(s, t) == Find(s, t, 1) # 0

\* the mutant of SplitFirst: url[:url.find('?')], which drops the last
\* character when there is no '?'
SplitFirstByFind(s) ==
    LET i == Find(s, "?", 1)
    IN  IF i = 0 THEN SubSeq(s, 1, Len(s) - 1) ELSE SubSeq(s, 1, i - 1)

\* s.split('?')[0]: the part before the first '?', all of s without one
SplitFirst(s) ==
    LET i == Find(s, "?", 1)
    IN  IF i = 0 THEN s ELSE SubSeq(s, 1, i - 1)

\* s.replace(old, ''): every occurrence removed, leftmost first, the scan
\* resuming after each occurrence (what was already copied is not rescanned)
RECURSIVE RemoveAll(_, _)
RemoveAll(s, old) ==
    LET i == Find(s, old, 1)
    IN  IF i = 0 THEN s
        ELSE SubSeq(s, 1, i - 1) \o RemoveAll(SubSeq(s, i + Len(old), Len(s)), old)

UrlPrefix == "https://open.spotify.com/playlist/"

\* line 95: playlist_url.split('?')[0].replace('https://open.spotify.com/playlist/', '')
PlaylistId(playlist_url) == RemoveAll(SplitFirst(playlist_url), UrlPrefix)

(***************************************************************************)
(* SpecExtract: the extraction on bounded inputs.                          *)
(***************************************************************************)
Pieces ==
    { UrlPrefix, "https://open.spotify.com/pl", "aylist/", "?", "ABC123", "?si=xyz", " " }

RECURSIVE Concat(_)
Concat(ps) == IF ps = <<>> THEN "" ELSE Head(ps) \o Concat(Tail(ps))

InputStrings ==
    { Concat(ps) : ps \in UNION { [1..n -> Pieces] : n \in 0..MaxPieces } }

(***************************************************************************)
(* Python values whose type the code depends on.                           *)
(***************************************************************************)
PyNone == [type |-> "NoneType"]
PyBool(b) == [type |-> "bool", val |-> b]
PyInt(n) == [type |-> "int", val |-> n]
PyStr(s) == [type |-> "str", val |-> s]
PyList(l) == [type |-> "list", items |-> l]
PyDict(d) == [type |-> "dict", items |-> d]

EmptyDict == PyDict(<<>>)

\* bool(v)
Truthy(v) ==
    CASE v.type = "NoneType" -> FALSE
      [] v.type = "bool" -> v.val
      [] v.type = "int" -> v.val # 0
      [] v.type = "str" -> v.val # ""
      [] v.type = "list" -> Len(v.items) > 0
      [] v.type = "dict" -> DOMAIN v.items # {}

\* `key in v` raises TypeError: v is not a container
InRaises(v) == v.type \in {"NoneType", "bool", "int"}

\* `key in v` for a string key: substring of a str, element of a list, key of a dict
In(key, v) ==
    CASE v.type = "str" -> StrContains(v.val, key)
      [] v.type = "list" -> \E i \in 1..Len(v.items) :
                                /\ v.items[i].type = "str"
                                /\ v.items[i].val = key
      [] v.type = "dict" -> key \in DOMAIN v.items
      [] OTHER -> FALSE

\* v[key] for a string key raises TypeError unless v is a dict
SubscriptRaises(v) == v.type # "dict"

\* v.get(key, default); only a dict has .get
HasGet(v) == v.type = "dict"
Get(v, key, default) == IF key \in DOMAIN v.items THEN v.items[key] ELSE default

(***************************************************************************)
(* Module-level initialisation, lines 22-35.                               *)
(***************************************************************************)
StartupOutcomes == {"ok", "credential_file_missing", "credential_json_malformed",
                    "client_construction_failed"}

\* try: ... client = bigquery.Client(...)  except Exception: client = None
InitClient(outcome) == IF outcome = "ok" THEN "client" ELSE "None"

(***************************************************************************)
(* The store: the rows a query can return.                                 *)
(***************************************************************************)
MetricsTable == "merged_may_all"
AdsTable == "ads_data"

\* the SELECT list of fetch_data, lines 47-50
Columns ==
    { "Playlist", "Spotify Playlist URL", "Followers", "Track Count",
      "total_stream_estimate", "Curator",
      "1_isitagoodplaylist", "2-10_isitagoodplaylist", "11-20_isitagoodplaylist",
      "21-50_isitagoodplaylist", "50+_isitagoodplaylist",
      "estimated_1st", "estimated_2_10", "estimated_11_20", "estimated_21_50",
      "estimated_+50", "streams_april", "streams_march", "streams_feb", "streams_jan" }

\* LIMIT 5 of fetch_data2
AdsLimit == 5

\* the value the store holds in column col of a row matching LIKE '%id%'
Cell(id, col) == "<" \o id \o ">." \o col

\* the i-th `ad link` of the rows matching LIKE '%id%'
AdLink(id, i) == Cell(id, "ad link") \o "#" \o ToString(i)

\* dict(row) for a row holding the columns cols
MetricsRow(id, cols) == [c \in cols |-> Cell(id, c)]

\* the subsets of S of at most k elements
RECURSIVE SubsetsUpTo(_, _)
SubsetsUpTo(S, k) ==
    IF k = 0 THEN {{}}
    ELSE LET smaller == SubsetsUpTo(S, k - 1)
         IN  smaller \cup { a \cup {c} : a \in smaller, c \in S }

Failed == [kind |-> "error"]
Rows(rs) == [kind |-> "rows", rows |-> rs]
Unsent == [kind |-> "unsent"]

\* what client.query(...).result() can do for the metrics query: raise, no row,
\* or one row (LIMIT 1) with at most maxAbsent of the columns missing
MetricsOutcomes(id, maxAbsent) ==
    {Failed, Rows(<<>>)} \cup
    { Rows(<<MetricsRow(id, Columns \ absent)>>) : absent \in SubsetsUpTo(Columns, maxAbsent) }

\* what it can do for the ads query: raise, or 0..5 rows (LIMIT 5)
AdsOutcomes(id) ==
    {Failed} \cup { Rows([i \in 1..n |-> AdLink(id, i)]) : n \in 0..AdsLimit }

(***************************************************************************)
(* fetch_data, fetch_data2 and the collection loops.                       *)
(***************************************************************************)
\* fetch_data, lines 56-64, given what the store did
FetchDataReturn(o) ==
    IF o.kind = "rows" /\ Len(o.rows) > 0 THEN PyDict(o.rows[1]) ELSE PyNone

\* fetch_data2, lines 78-85, given what the store did
FetchData2Return(o) ==
    IF o.kind # "rows" THEN PyNone
    ELSE IF Len(o.rows) > 0 THEN PyDict([k \in {"ad link"} |-> o.rows])
    ELSE PyList(<<>>)

NoDataFound == PyDict([k \in {"error"} |-> "No data found"])

\* the mutant of Collect: results[table_name] = data
CollectRaw(data) == data

\* lines 113 and 133: data if data else {"error": "No data found"}
Collect(data) == IF Truthy(data) THEN data ELSE NoDataFound

(***************************************************************************)
(* The merge step of get_playlist_ids, lines 137-165.                      *)
(***************************************************************************)
Placeholder == "?"

\* the mutant of EstimateColumns: est1 and est2 read from each other's column
EstimateColumnsSwapped ==
    << "total_stream_estimate", "streams_march", "streams_april", "streams_feb",
       "streams_jan" >>

\* est0 .. est4, lines 138 and 143-146
EstimateColumns ==
    << "total_stream_estimate", "streams_april", "streams_march", "streams_feb",
       "streams_jan" >>

\* the column list of lines 154-155
TierColumns ==
    << "1_isitagoodplaylist", "2-10_isitagoodplaylist", "11-20_isitagoodplaylist",
       "21-50_isitagoodplaylist", "50+_isitagoodplaylist",
       "estimated_1st", "estimated_2_10", "estimated_11_20", "estimated_21_50",
       "estimated_+50" >>

\* the 5 of range(0, 5-len(ads_links))
PadTo == 5

\* the mutant of PadLinks: range(1, 5-len(ads_links))
PadLinksShort(links) ==
    links \o [i \in 1..Max(0, PadTo - Len(links) - 1) |-> ""]

\* lines 150-151: for x in range(0, 5-len(ads_links)): ads_links.append("")
PadLinks(links) ==
    links \o [i \in 1..Max(0, PadTo - Len(links)) |-> ""]

\* results.get(table, {})
TableEntry(res, table) == IF table \in DOMAIN res THEN res[table] ELSE EmptyDict

\* lines 137-165; .get on a value that is no dict raises AttributeError
Merge(res, res2) ==
    LET m == TableEntry(res, MetricsTable)
        a == TableEntry(res2, AdsTable)
    IN  IF ~HasGet(m) \/ ~HasGet(a)
        THEN [raised |-> TRUE, message |-> "AttributeError: object has no attribute 'get'"]
        ELSE [raised |-> FALSE,
              data |->
                [track_count |-> Get(m, "Track Count", Placeholder),
                 estimates |-> [i \in 1..Len(EstimateColumns) |->
                                   Get(m, EstimateColumns[i], Placeholder)],
                 lssst |-> [i \in 1..Len(TierColumns) |->
                                   Get(m, TierColumns[i], Placeholder)],
                 Followers |-> Get(m, "Followers", Placeholder),
                 curator |-> Get(m, "Curator", Placeholder),
                 playlist_name |-> Get(m, "Playlist", Placeholder),
                 ads_links |-> PadLinks(Get(a, "ad link", <<>>))]]

(***************************************************************************)
(* The endpoint, lines 171-182.                                            *)
(***************************************************************************)
ErrorResponse(code, message) ==
    [code |-> code, status |-> "error", message |-> message]
SuccessResponse(data) == [code |-> 200, status |-> "success", data |-> data]
NoResponse == [code |-> 0, status |-> "none"]

MissingMessage == "Missing 'playlist_url' in request."

\* lines 174-178 and the first statement of get_playlist_ids (line 95): either
\* the response that ends the request, or the playlist_url to go on with
Validate(data) ==
    IF ~Truthy(data)
        THEN [ok |-> FALSE, response |-> ErrorResponse(400, MissingMessage)]
    ELSE IF InRaises(data)
        THEN [ok |-> FALSE,
              response |-> ErrorResponse(500, "TypeError: argument is not iterable")]
    ELSE IF ~In("playlist_url", data)
        THEN [ok |-> FALSE, response |-> ErrorResponse(400, MissingMessage)]
    ELSE IF SubscriptRaises(data)
        THEN [ok |-> FALSE,
              response |-> ErrorResponse(500, "TypeError: indices must be integers")]
    ELSE IF data.items["playlist_url"].type # "str"
        THEN [ok |-> FALSE,
              response |-> ErrorResponse(500, "AttributeError: object has no attribute 'split'")]
    ELSE [ok |-> TRUE, playlist_url |-> data.items["playlist_url"].val]

\* line 180, or line 182 when get_playlist_ids raised
Respond(merged) ==
    IF merged.raised THEN ErrorResponse(500, merged.message)
    ELSE SuccessResponse(merged.data)

(***************************************************************************)
(* Requests.                                                               *)
(***************************************************************************)
Requests == {1, 2}

\* the mutant of Frame: playlist_id, results and results2 kept at module level,
\* one copy for all requests
FrameShared(r) == 1

\* each call of get_playlist_ids has its own locals (playlist_id, results, results2)
Frame(r) == r

\* the playlist_url values of Spec
SpecUrls ==
    { "", "?si=xyz", UrlPrefix, "ABC123",
      UrlPrefix \o "ABC123", UrlPrefix \o "ABC123?si=xyz",
      " " \o UrlPrefix \o "ABC123" }

\* the values request.get_json() returns in Spec
Bodies ==
    { PyNone, PyBool(FALSE), PyBool(TRUE), PyInt(0), PyInt(5),
      PyStr(""), PyStr("abc"), PyStr("playlist_url"),
      PyList(<<>>), PyList(<<PyStr("x")>>), PyList(<<PyStr("playlist_url")>>),
      EmptyDict,
      PyDict([k \in {"url"} |-> PyStr("ABC123")]),
      PyDict([k \in {"playlist_url"} |-> PyNone]),
      PyDict([k \in {"playlist_url"} |-> PyInt(5)]) }
    \cup { PyDict([k \in {"playlist_url"} |-> PyStr(u)]) : u \in SpecUrls }

\* the bodies of SpecPair: two playlists
PairBodies ==
    { PyDict([k \in {"playlist_url"} |-> PyStr(u)]) :
        u \in { UrlPrefix \o "AAA", UrlPrefix \o "BBB?si=xyz" } }

\* the query of request r on table, once it reached the store
QueryOf(r, table) == CHOOSE q \in issued : q.req = r /\ q.table = table

InProgress(r) == pc[r] \notin {"idle", "done"}

(***************************************************************************)
(* Actions: the handler of one request, cut where its thread waits.        *)
(***************************************************************************)
\* lines 173-179, 95-108: parse and validate the body, extract the identifier,
\* submit fetch_data to the first pool
Handle(r, bodies) ==
    \E b \in bodies :
        /\ pc[r] = "idle"
        /\ body' = [body EXCEPT ![r] = b]
        /\ overlapped' = (overlapped \/ \E o \in Requests \ {r} : InProgress(o))
        /\ LET v == Validate(b)
           IN  IF v.ok
               THEN /\ playlist_id' =
                          [playlist_id EXCEPT ![Frame(r)] = PlaylistId(v.playlist_url)]
                    /\ results' = [results EXCEPT ![Frame(r)] = <<>>]
                    /\ pc' = [pc EXCEPT ![r] = "fetch_data"]
                    /\ UNCHANGED response
               ELSE /\ response' = [response EXCEPT ![r] = v.response]
                    /\ pc' = [pc EXCEPT ![r] = "done"]
                    /\ UNCHANGED <<playlist_id, results>>
        /\ UNCHANGED <<startup, client, results2, issued, storeOut>>
        /\ UNCHANGED extractVars

\* fetch_data in its worker, lines 45-57: client.query(query). With no client
\* the call raises, fetch_data returns None (lines 62-64), the loop of lines
\* 109-115 collects it and lines 117-128 submit fetch_data2.
FetchDataQuery(r) ==
    /\ pc[r] = "fetch_data"
    /\ IF client = "None"
       THEN /\ results' = [results EXCEPT ![Frame(r)] =
                              [t \in {MetricsTable} |-> Collect(PyNone)]]
            /\ results2' = [results2 EXCEPT ![Frame(r)] = <<>>]
            /\ pc' = [pc EXCEPT ![r] = "fetch_data2"]
            /\ UNCHANGED issued
       ELSE /\ issued' = issued \cup
                  {[req |-> r, table |-> MetricsTable, like |-> playlist_id[Frame(r)]]}
            /\ pc' = [pc EXCEPT ![r] = "metrics_query"]
            /\ UNCHANGED <<results, results2>>
    /\ UNCHANGED <<startup, client, body, playlist_id, storeOut, response, overlapped>>
    /\ UNCHANGED extractVars

\* lines 58-64, 109-128: the store answers, fetch_data returns, the result is
\* collected under its table name, the first pool is left and fetch_data2 is
\* submitted to the second
FetchDataResult(r, maxAbsent) ==
    /\ pc[r] = "metrics_query"
    /\ \E o \in MetricsOutcomes(QueryOf(r, MetricsTable).like, maxAbsent) :
        /\ storeOut' = [storeOut EXCEPT ![r].metrics = o]
        /\ results' = [results EXCEPT ![Frame(r)] =
                          [t \in {MetricsTable} |-> Collect(FetchDataReturn(o))]]
    /\ results2' = [results2 EXCEPT ![Frame(r)] = <<>>]
    /\ pc' = [pc EXCEPT ![r] = "fetch_data2"]
    /\ UNCHANGED <<startup, client, body, playlist_id, issued, response, overlapped>>
    /\ UNCHANGED extractVars

\* lines 129-165 and 180-182 once fetch_data2 has returned `returned`
Finish(r, returned) ==
    LET mine == [t \in {AdsTable} |-> Collect(returned)]
    IN  /\ results2' = [results2 EXCEPT ![Frame(r)] = mine]
        /\ response' = [response EXCEPT ![r] = Respond(Merge(results[Frame(r)], mine))]
        /\ pc' = [pc EXCEPT ![r] = "done"]

\* fetch_data2 in its worker, lines 70-79: client.query(query). With no client
\* the call raises, fetch_data2 returns None (lines 83-85) and the request is
\* finished.
FetchData2Query(r) ==
    /\ pc[r] = "fetch_data2"
    /\ IF client = "None"
       THEN /\ Finish(r, PyNone)
            /\ UNCHANGED issued
       ELSE /\ issued' = issued \cup
                  {[req |-> r, table |-> AdsTable, like |-> playlist_id[Frame(r)]]}
            /\ pc' = [pc EXCEPT ![r] = "ads_query"]
            /\ UNCHANGED <<results2, response>>
    /\ UNCHANGED <<startup, client, body, playlist_id, results, storeOut, overlapped>>
    /\ UNCHANGED extractVars

\* lines 80-85, 129-165, 180: the store answers, fetch_data2 returns, the merge
\* step builds the result and the response is sent
FetchData2Result(r) ==
    /\ pc[r] = "ads_query"
    /\ \E o \in AdsOutcomes(QueryOf(r, AdsTable).like) :
        /\ storeOut' = [storeOut EXCEPT ![r].ads = o]
        /\ Finish(r, FetchData2Return(o))
    /\ UNCHANGED <<startup, client, body, playlist_id, results, issued, overlapped>>
    /\ UNCHANGED extractVars

\* line 95 applied to the input string
ExtractOnce ==
    /\ xpc = "input"
    /\ xid' = PlaylistId(xurl)
    /\ xpc' = "once"
    /\ UNCHANGED <<xurl, xid2>>
    /\ UNCHANGED serviceVars

\* line 95 applied to its own result
ExtractAgain ==
    /\ xpc = "once"
    /\ xid2' = PlaylistId(xid)
    /\ xpc' = "twice"
    /\ UNCHANGED <<xurl, xid>>
    /\ UNCHANGED serviceVars

(***************************************************************************)
(* Specifications.                                                         *)
(***************************************************************************)
ServiceInit ==
    /\ startup \in StartupOutcomes
    /\ client = InitClient(startup)
    /\ body = [r \in Requests |-> PyNone]
    /\ pc = [r \in Requests |-> "idle"]
    /\ playlist_id = [f \in Requests |-> ""]
    /\ results = [f \in Requests |-> <<>>]
    /\ results2 = [f \in Requests |-> <<>>]
    /\ issued = {}
    /\ storeOut = [r \in Requests |-> [metrics |-> Unsent, ads |-> Unsent]]
    /\ response = [r \in Requests |-> NoResponse]
    /\ overlapped = FALSE

ExtractIdle ==
    /\ xurl = ""
    /\ xid = ""
    /\ xid2 = ""
    /\ xpc = "input"

Init == ServiceInit /\ ExtractIdle

Next ==
    \E r \in {1} :
        \/ Handle(r, Bodies)
        \/ FetchDataQuery(r)
        \/ FetchDataResult(r, MaxAbsent)
        \/ FetchData2Query(r)
        \/ FetchData2Result(r)

Spec == Init /\ [][Next]_vars

NextPair ==
    \E r \in Requests :
        \/ Handle(r, PairBodies)
        \/ FetchDataQuery(r)
        \/ FetchDataResult(r, 0)
        \/ FetchData2Query(r)
        \/ FetchData2Result(r)

SpecPair == Init /\ [][NextPair]_vars

InitExtract ==
    /\ ServiceInit
    /\ startup = "ok"
    /\ xurl \in InputStrings
    /\ xid = ""
    /\ xid2 = ""
    /\ xpc = "input"

NextExtract == ExtractOnce \/ ExtractAgain

SpecExtract == InitExtract /\ [][NextExtract]_vars

(***************************************************************************)
(* Vocabulary of the properties.                                           *)
(***************************************************************************)
Done(r) == pc[r] = "done"

\* the body is a JSON object with a playlist_url field
HasField(b) == b.type = "dict" /\ "playlist_url" \in DOMAIN b.items

\* ... whose value is a string
HasStringUrl(b) == HasField(b) /\ b.items["playlist_url"].type = "str"

Succeeded(r) == Done(r) /\ response[r].status = "success"

IssuedBy(r) == { q \in issued : q.req = r }

\* the store returned a metrics row to request r
GotRow(r) == storeOut[r].metrics.kind = "rows" /\ Len(storeOut[r].metrics.rows) > 0
TheRow(r) == storeOut[r].metrics.rows[1]

\* the links the store returned to request r, none when the query failed or
\* never reached the store
GotLinks(r) == IF storeOut[r].ads.kind = "rows" THEN storeOut[r].ads.rows ELSE <<>>

\* the row's value for a column, the placeholder when the row lacks it
ValueOr(row, col) == IF col \in DOMAIN row THEN row[col] ELSE "?"

\* the fields of a result that are read from the metrics table
MetricsPart(d) ==
    <<d.track_count, d.estimates, d.lssst, d.Followers, d.curator, d.playlist_name>>

AllPlaceholders ==
    << "?", <<"?", "?", "?", "?", "?">>,
       <<"?", "?", "?", "?", "?", "?", "?", "?", "?", "?">>, "?", "?", "?" >>

(***************************************************************************)
(* C1. Every request whose JSON body holds no playlist_url field is        *)
(* answered with the error envelope and HTTP 400, and no query reaches the *)
(* store for it.                                                           *)
(***************************************************************************)
C1_MissingFieldIs400 ==
    \A r \in Requests :
        (Done(r) /\ ~HasField(body[r])) =>
            /\ response[r].status = "error"
            /\ response[r].code = 400
            /\ IssuedBy(r) = {}

(***************************************************************************)
(* C2. A request whose playlist_url is a string is answered with status    *)
(* "success" and a data payload whatever the two queries did (rows, no     *)
(* rows, an error); a failed query of one table leaves the fields of the   *)
(* other table as the store returned them.                                 *)
(***************************************************************************)
C2_AlwaysSuccess ==
    \A r \in Requests :
        (Done(r) /\ HasStringUrl(body[r])) =>
            /\ response[r].status = "success"
            /\ response[r].code = 200
            /\ "data" \in DOMAIN response[r]
            /\ (storeOut[r].metrics.kind # "rows" =>
                    /\ Len(response[r].data.ads_links) = PadTo
                    /\ \A i \in 1..Len(GotLinks(r)) :
                           response[r].data.ads_links[i] = GotLinks(r)[i])
            /\ (storeOut[r].ads.kind # "rows" /\ GotRow(r) =>
                    /\ response[r].data.track_count = ValueOr(TheRow(r), "Track Count")
                    /\ response[r].data.Followers = ValueOr(TheRow(r), "Followers")
                    /\ response[r].data.curator = ValueOr(TheRow(r), "Curator")
                    /\ response[r].data.playlist_name = ValueOr(TheRow(r), "Playlist"))

\* the metrics query raised, the ads query returned three links, and the
\* answer is a success carrying the three links
C2_Witness ==
    /\ Done(1)
    /\ HasStringUrl(body[1])
    /\ storeOut[1].metrics = Failed
    /\ storeOut[1].ads.kind = "rows"
    /\ Len(storeOut[1].ads.rows) = 3
    /\ response[1].status = "success"
    /\ response[1].data.ads_links[3] = storeOut[1].ads.rows[3]
    /\ response[1].data.track_count = "?"

(***************************************************************************)
(* C3. The merge is a field-by-field lookup with a placeholder default:    *)
(* with a metrics row, track_count, Followers, curator, playlist_name and  *)
(* the five estimates (total_stream_estimate, streams_april,               *)
(* streams_march, streams_feb, streams_jan, in that order) are the row's   *)
(* values, and lssst has exactly 10 entries in the fixed column order,     *)
(* each the row's value or "?" when the row lacks the column; with no row  *)
(* or a failed query every one of those fields is "?" and lssst still has  *)
(* 10 entries.                                                             *)
(***************************************************************************)
C3_FieldByField ==
    \A r \in Requests :
        Succeeded(r) =>
            LET d == response[r].data
            IN  IF GotRow(r)
                THEN LET row == TheRow(r)
                     IN  /\ d.track_count = ValueOr(row, "Track Count")
                         /\ d.Followers = ValueOr(row, "Followers")
                         /\ d.curator = ValueOr(row, "Curator")
                         /\ d.playlist_name = ValueOr(row, "Playlist")
                         /\ d.estimates =
                              << ValueOr(row, "total_stream_estimate"),
                                 ValueOr(row, "streams_april"),
                                 ValueOr(row, "streams_march"),
                                 ValueOr(row, "streams_feb"),
                                 ValueOr(row, "streams_jan") >>
                         /\ d.lssst =
                              << ValueOr(row, "1_isitagoodplaylist"),
                                 ValueOr(row, "2-10_isitagoodplaylist"),
                                 ValueOr(row, "11-20_isitagoodplaylist"),
                                 ValueOr(row, "21-50_isitagoodplaylist"),
                                 ValueOr(row, "50+_isitagoodplaylist"),
                                 ValueOr(row, "estimated_1st"),
                                 ValueOr(row, "estimated_2_10"),
                                 ValueOr(row, "estimated_11_20"),
                                 ValueOr(row, "estimated_21_50"),
                                 ValueOr(row, "estimated_+50") >>
                ELSE MetricsPart(d) = AllPlaceholders

\* a row that lacks estimated_11_20 alone: that entry of lssst is "?", the
\* others and the named fields are the row's values
C3_Witness ==
    /\ Succeeded(1)
    /\ GotRow(1)
    /\ DOMAIN TheRow(1) = Columns \ {"estimated_11_20"}
    /\ Len(response[1].data.lssst) = 10
    /\ response[1].data.lssst[8] = "?"
    /\ response[1].data.lssst[7] = TheRow(1)["estimated_2_10"]
    /\ response[1].data.lssst[7] # "?"
    /\ response[1].data.estimates[2] = TheRow(1)["streams_april"]
    /\ response[1].data.track_count = TheRow(1)["Track Count"]

(***************************************************************************)
(* C4. ads_links has exactly 5 entries whatever the ads query did (an      *)
(* error, or 0 to 5 rows): the links the store returned, in the order      *)
(* returned, then "" up to 5 entries.                                      *)
(***************************************************************************)
C4_AdsLinksPadded ==
    \A r \in Requests :
        Succeeded(r) =>
            LET links == response[r].data.ads_links
                got == GotLinks(r)
            IN  /\ Len(links) = 5
                /\ Len(got) <= 5
                /\ \A i \in 1..5 : links[i] = IF i <= Len(got) THEN got[i] ELSE ""

\* three links returned: three links and two empty strings in the result
C4_Witness ==
    /\ Succeeded(1)
    /\ Len(GotLinks(1)) = 3
    /\ response[1].data.ads_links =
          << GotLinks(1)[1], GotLinks(1)[2], GotLinks(1)[3], "", "" >>
    /\ GotLinks(1)[1] # ""

(***************************************************************************)
(* C5. When the client initialisation failed, the client stays unset and   *)
(* every request that asks for a playlist is answered with an error        *)
(* envelope whose message says the client is not initialised, never with   *)
(* status "success".                                                       *)
(***************************************************************************)
C5_FailsClosed ==
    \A r \in Requests :
        (Done(r) /\ startup # "ok" /\ HasStringUrl(body[r])) =>
            /\ client = "None"
            /\ response[r].status = "error"
            /\ StrContains(response[r].message, "not initialized")

(***************************************************************************)
(* C6. With two requests handled in overlapping time, under every          *)
(* interleaving of their steps, every field of a response comes from the   *)
(* rows the store holds for that request's own identifier, or is the       *)
(* placeholder or the padding: nothing comes from the other request.       *)
(***************************************************************************)
OwnId(r) == PlaylistId(body[r].items["playlist_url"].val)

C6_NoLeak ==
    \A r \in Requests :
        Succeeded(r) =>
            LET d == response[r].data
                id == OwnId(r)
            IN  /\ d.track_count \in {"?", Cell(id, "Track Count")}
                /\ d.Followers \in {"?", Cell(id, "Followers")}
                /\ d.curator \in {"?", Cell(id, "Curator")}
                /\ d.playlist_name \in {"?", Cell(id, "Playlist")}
                /\ \A i \in 1..Len(d.estimates) :
                       d.estimates[i] \in {"?", Cell(id, EstimateColumns[i])}
                /\ \A i \in 1..Len(d.lssst) :
                       d.lssst[i] \in {"?", Cell(id, TierColumns[i])}
                /\ \A i \in 1..Len(d.ads_links) :
                       d.ads_links[i] \in {"", AdLink(id, i)}
                /\ \A q \in IssuedBy(r) : q.like = id

\* two requests for different identifiers overlapped, and each was answered
\* with its own playlist's row and links
C6_Witness ==
    /\ overlapped
    /\ Succeeded(1)
    /\ Succeeded(2)
    /\ OwnId(1) # OwnId(2)
    /\ GotRow(1)
    /\ GotRow(2)
    /\ response[1].data.curator = Cell(OwnId(1), "Curator")
    /\ response[2].data.curator = Cell(OwnId(2), "Curator")
    /\ response[1].data.ads_links[2] = AdLink(OwnId(1), 2)
    /\ response[2].data.ads_links[1] = AdLink(OwnId(2), 1)
    /\ response[2].data.ads_links[2] = ""

(***************************************************************************)
(* C7. The identifier equals the reference extractor's: the part of the    *)
(* input before the first '?', with the literal                            *)
(* https://open.spotify.com/playlist/ removed when that part starts with   *)
(* it, and unchanged otherwise.                                            *)
(***************************************************************************)
ReferenceExtract(u) ==
    LET left == IF Find(u, "?", 1) = 0 THEN u ELSE SubSeq(u, 1, Find(u, "?", 1) - 1)
    IN  IF OccursAt(left, UrlPrefix, 1)
        THEN SubSeq(left, Len(UrlPrefix) + 1, Len(left))
        ELSE left

C7_EqualsReference == xpc # "input" => xid = ReferenceExtract(xurl)

(***************************************************************************)
(* C8. The extraction is idempotent: applied to its own output it returns  *)
(* that output unchanged.                                                  *)
(***************************************************************************)
C8_Idempotent == xpc = "twice" => xid2 = xid

\* C8 as amended: the extraction applied to its own output returns that
\* output unchanged whenever the output holds no occurrence of the literal
\* https://open.spotify.com/playlist/
C8_IdempotentOnBare ==
    (xpc = "twice" /\ ~StrContains(xid, UrlPrefix)) => xid2 = xid

\* the URL with a query string: ABC123 after one application and after two
C8_Witness ==
    /\ xpc = "twice"
    /\ xurl = UrlPrefix \o "ABC123" \o "?si=xyz"
    /\ xid = "ABC123"
    /\ xid2 = "ABC123"

(***************************************************************************)
(* C9. The two queries of a request are dispatched concurrently, with no   *)
(* ordering between the tables: while the metrics query is at the store,   *)
(* not yet completed, the ads query has been issued or can be issued.      *)
(***************************************************************************)
C9_AdsQueryNotOrderedAfterMetrics ==
    \A r \in Requests :
        pc[r] = "metrics_query" =>
            \/ \E q \in IssuedBy(r) : q.table = AdsTable
            \/ ENABLED FetchData2Query(r)

(***************************************************************************)
(* C10. The identifier in the LIKE filter of every query issued is a       *)
(* non-empty string.                                                       *)
(***************************************************************************)
C10_FilterNotEmpty == \A q \in issued : q.like # ""
====
